---- MODULE Spec2Model ----
(***************************************************************************)
(* Unified AI Agent API (src/ass/main.py): POST /api/agents validates the  *)
(* two provider credentials and the AgentConfig body, maps the config to   *)
(* the Vapi or Retell payload, issues one outbound POST and translates the *)
(* downstream outcome into the response.                                    *)
(*                                                                         *)
(* JSON / Python values are tagged tuples: <<"null">>, <<"str", s>>,       *)
(* <<"num", n>>, <<"arr", seq>>, <<"obj", f>> (f a function from keys to   *)
(* values) and <<"model", f>> for a pydantic model instance.  A dict that  *)
(* is a Python local (the payload, the headers) is the bare function.      *)
(***************************************************************************)
EXTENDS Integers, Sequences, FiniteSets, TLC

VARIABLES env, pc, request, outbound, downstream, responses

vars == <<env, pc, request, outbound, downstream, responses>>

\* Number of requests that may be in flight at once.
NumReq == 2

Reqs == 1..NumReq

-----------------------------------------------------------------------------
(* Values *)

None == <<"null">>

Str(s) == <<"str", s>>

Num(n) == <<"num", n>>

Arr(q) == <<"arr", q>>

Obj(f) == <<"obj", f>>

Model(f) == <<"model", f>>

EmptyDict == <<>>

\* Python truthiness: None, "", 0, [] and {} are falsy; a pydantic model
\* instance (no __bool__/__len__) is always truthy.
Truthy(v) ==
    CASE v[1] = "null" -> FALSE
      [] v[1] = "str" -> v[2] # ""
      [] v[1] = "num" -> v[2] # 0
      [] v[1] = "arr" -> Len(v[2]) # 0
      [] v[1] = "obj" -> DOMAIN v[2] # {}
      [] OTHER -> TRUE

\* Python `a or b`.
Or(a, b) == IF Truthy(a) THEN a ELSE b

\* d[k] = v on a dict.
SetItem(d, k, v) == [x \in (DOMAIN d) \cup {k} |-> IF x = k THEN v ELSE d[x]]

\* dict.get(k, default).
DictGet(d, k, default) == IF k \in DOMAIN d THEN d[k] ELSE default

RECURSIVE JoinRepr(_, _)

\* repr() of a value, as str() of a list uses it for the elements.
PyRepr(v) ==
    CASE v[1] = "null" -> "None"
      [] v[1] = "str" -> "'" \o v[2] \o "'"
      [] v[1] = "num" -> ToString(v[2])
      [] v[1] = "arr" -> "[" \o JoinRepr(v[2], 1) \o "]"
      [] OTHER -> "{...}"

JoinRepr(q, i) ==
    IF i > Len(q) THEN ""
    ELSE PyRepr(q[i]) \o (IF i < Len(q) THEN ", " ELSE "") \o JoinRepr(q, i + 1)

\* str() of a value, as an f-string formats it.
PyStr(v) == IF v[1] = "str" THEN v[2] ELSE PyRepr(v)

\* `sub in s` on Python strings.
Contains(s, sub) ==
    \E i \in 1..(Len(s) - Len(sub) + 1) : SubSeq(s, i, i + Len(sub) - 1) = sub

-----------------------------------------------------------------------------
(* Schema: AgentProvider, VoiceProvider, Voice, AgentConfig *)

AgentProvider == {"vapi", "retell"}

VoiceProvider ==
    {"eleven_labs", "deepgram", "play_ht", "open_ai", "retell", "aws_polly", "google"}

\* A field of the raw JSON body; an Optional field that is absent is None.
Field(body, k) == DictGet(body, k, None)

\* Validation errors of the Voice model for a raw `voice` value.
VoiceErrors(v) ==
    IF v = None THEN <<>>
    ELSE IF v[1] # "obj" THEN <<Str("body.voice")>>
    ELSE (IF "provider" \in DOMAIN v[2] /\ v[2]["provider"][1] = "str"
             /\ v[2]["provider"][2] \in VoiceProvider
          THEN <<>> ELSE <<Str("body.voice.provider")>>)
         \o
         (IF "voice_id" \in DOMAIN v[2] /\ v[2]["voice_id"][1] = "str"
          THEN <<>> ELSE <<Str("body.voice.voice_id")>>)

\* Variant of AgentConfigErrors: provider declared as a plain str, its value
\* not checked against AgentProvider.
AgentConfigErrorsAnyProvider(body) ==
    (IF "name" \in DOMAIN body /\ body["name"][1] = "str"
     THEN <<>> ELSE <<Str("body.name")>>)
    \o VoiceErrors(Field(body, "voice"))
    \o
    (IF "provider" \in DOMAIN body /\ body["provider"][1] = "str"
     THEN <<>> ELSE <<Str("body.provider")>>)

\* Validation errors of the AgentConfig model for a raw JSON body.
AgentConfigErrors(body) ==
    (IF "name" \in DOMAIN body /\ body["name"][1] = "str"
     THEN <<>> ELSE <<Str("body.name")>>)
    \o VoiceErrors(Field(body, "voice"))
    \o
    (IF "provider" \in DOMAIN body /\ body["provider"][1] = "str"
        /\ body["provider"][2] \in AgentProvider
     THEN <<>> ELSE <<Str("body.provider")>>)

\* The Voice instance built from a valid raw `voice` value.
Voice(v) ==
    IF v = None THEN None
    ELSE Model([provider |-> v[2]["provider"],
                voice_id |-> v[2]["voice_id"],
                settings |-> DictGet(v[2], "settings", None)])

\* The AgentConfig instance built from a valid raw JSON body.
AgentConfig(body) ==
    [name |-> body["name"],
     description |-> Field(body, "description"),
     llm_model |-> Field(body, "llm_model"),
     system_prompt |-> Field(body, "system_prompt"),
     voice |-> Voice(Field(body, "voice")),
     webhook_url |-> Field(body, "webhook_url"),
     metadata |-> Field(body, "metadata"),
     provider |-> body["provider"],
     provider_specific |-> Field(body, "provider_specific")]

-----------------------------------------------------------------------------
(* Results of a call: a returned value or a raised exception *)

Return(v) == [kind |-> "return", status_code |-> 0, detail |-> "", value |-> v]

HTTPException(status_code, detail) ==
    [kind |-> "HTTPException", status_code |-> status_code, detail |-> detail,
     value |-> None]

\* An exception no handler of the application catches.
Unhandled(name) ==
    [kind |-> "unhandled", status_code |-> 0, detail |-> name, value |-> None]

-----------------------------------------------------------------------------
(* Credentials *)

\* Variant of validate_api_keys: the retell credential is not checked.
validate_api_keys_vapi_only(e) ==
    LET vapi_key == e["VAPI_API_KEY"]
        retell_key == e["RETELL_API_KEY"]
    IN  IF ~Truthy(vapi_key)
        THEN HTTPException(500, "VAPI_API_KEY not configured in environment")
        ELSE Return([vapi_key |-> vapi_key, retell_key |-> retell_key])

\* validate_api_keys: both credentials are required, whichever provider the
\* request targets; os.getenv gives None for an unset variable.
validate_api_keys(e) ==
    LET vapi_key == e["VAPI_API_KEY"]
        retell_key == e["RETELL_API_KEY"]
    IN  IF ~Truthy(vapi_key)
        THEN HTTPException(500, "VAPI_API_KEY not configured in environment")
        ELSE IF ~Truthy(retell_key)
        THEN HTTPException(500, "RETELL_API_KEY not configured in environment")
        ELSE Return([vapi_key |-> vapi_key, retell_key |-> retell_key])

-----------------------------------------------------------------------------
(* Field mapper *)

VapiVoiceMapping ==
    [eleven_labs |-> "eleven_labs", deepgram |-> "deepgram", play_ht |-> "play_ht",
     open_ai |-> "open_ai", aws_polly |-> "aws_polly", google |-> "google",
     retell |-> "retell"]

map_voice_provider_to_vapi(provider) ==
    Str(DictGet(VapiVoiceMapping, provider[2], "eleven_labs"))

RetellVoiceMapping ==
    [eleven_labs |-> "elevenlabs", deepgram |-> "deepgram", play_ht |-> "playht",
     open_ai |-> "openai", aws_polly |-> "polly", google |-> "google",
     retell |-> "retell"]

\* Variant of map_voice_provider_to_retell: looks the name up in Vapi's table.
map_voice_provider_to_retell_vapi_names(provider) ==
    Str(DictGet(VapiVoiceMapping, provider[2], "elevenlabs"))

map_voice_provider_to_retell(provider) ==
    Str(DictGet(RetellVoiceMapping, provider[2], "elevenlabs"))

RECURSIVE MergeItems(_, _, _)

\* for key, value in items: payload[key] = value  (keys: those not yet visited)
MergeItems(payload, items, keys) ==
    IF keys = {} THEN payload
    ELSE LET key == CHOOSE k \in keys : TRUE
         IN  MergeItems(SetItem(payload, key, items[key]), items, keys \ {key})

\* Variant of merge_provider_specific: payload.setdefault(key, value), a key
\* the mapper generated keeps the mapper's value.
merge_provider_specific_setdefault(payload, provider_specific) ==
    IF Truthy(provider_specific)
    THEN MergeItems(payload, provider_specific[2],
                    (DOMAIN provider_specific[2]) \ (DOMAIN payload))
    ELSE payload

\* if config.provider_specific: merge its items into the payload.
merge_provider_specific(payload, provider_specific) ==
    IF Truthy(provider_specific)
    THEN MergeItems(payload, provider_specific[2], DOMAIN provider_specific[2])
    ELSE payload

\* if config.webhook_url / if config.description.
add_webhook_description(payload, config) ==
    LET p1 == IF Truthy(config.webhook_url)
              THEN SetItem(payload, "webhook_url", config.webhook_url)
              ELSE payload
    IN  IF Truthy(config.description)
        THEN SetItem(p1, "description", config.description)
        ELSE p1

\* The payload create_vapi_agent builds.
vapi_payload(config) ==
    LET p0 == [name |-> config.name,
               model |-> Or(config.llm_model, Str("gpt-3.5-turbo-0125")),
               system_prompt |-> Or(config.system_prompt, Str("")),
               metadata |-> Or(config.metadata, Obj(EmptyDict))]
        voice0 == [provider |-> map_voice_provider_to_vapi(config.voice[2].provider)]
        voice1 == IF Truthy(config.voice[2].settings)
                  THEN SetItem(voice0, "settings", config.voice[2].settings)
                  ELSE voice0
        p1 == IF Truthy(config.voice)
              THEN SetItem(SetItem(p0, "voice_id", config.voice[2].voice_id),
                           "voice", Obj(voice1))
              ELSE p0
    IN  merge_provider_specific(add_webhook_description(p1, config),
                                config.provider_specific)

\* The payload create_retell_agent builds.
retell_payload(config) ==
    LET p0 == [name |-> config.name,
               llm |-> Obj([provider |-> Str("openai"),
                            model |-> Or(config.llm_model, Str("gpt-3.5-turbo"))]),
               system_prompt |-> Or(config.system_prompt, Str("")),
               metadata |-> Or(config.metadata, Obj(EmptyDict))]
        voice0 == [provider |-> map_voice_provider_to_retell(config.voice[2].provider),
                   voice_id |-> config.voice[2].voice_id]
        voice1 == IF Truthy(config.voice[2].settings)
                  THEN SetItem(voice0, "settings", config.voice[2].settings)
                  ELSE voice0
        p1 == IF Truthy(config.voice)
              THEN SetItem(p0, "voice", Obj(voice1))
              ELSE p0
    IN  merge_provider_specific(add_webhook_description(p1, config),
                                config.provider_specific)

-----------------------------------------------------------------------------
(* Dispatcher: the outbound call *)

VapiUrl == "https://api.vapi.ai/assistants"

RetellUrl == "https://api.retellai.com/agents"

Headers(api_key) ==
    ("Authorization" :> ("Bearer " \o PyStr(api_key)))
    @@ ("Content-Type" :> "application/json")

\* client.post(url, headers=headers, json=payload) of create_vapi_agent.
create_vapi_agent_request(config, api_key) ==
    [url |-> VapiUrl, headers |-> Headers(api_key), json |-> vapi_payload(config)]

\* client.post(url, headers=headers, json=payload) of create_retell_agent.
create_retell_agent_request(config, api_key) ==
    [url |-> RetellUrl, headers |-> Headers(api_key), json |-> retell_payload(config)]

\* Variant of create_agent: the two credentials are passed the wrong way round.
create_agent_swapped_keys(config, api_keys) ==
    IF config.provider = Str("vapi")
    THEN [await |-> "create_vapi_agent",
          call |-> <<create_vapi_agent_request(config, api_keys["retell_key"])>>,
          result |-> Return(None)]
    ELSE IF config.provider = Str("retell")
    THEN [await |-> "create_retell_agent",
          call |-> <<create_retell_agent_request(config, api_keys["vapi_key"])>>,
          result |-> Return(None)]
    ELSE [await |-> "",
          call |-> <<>>,
          result |-> HTTPException(400, "Invalid provider specified")]

\* create_agent up to its suspension: the coroutine it awaits and that
\* coroutine's outbound call, or the exception of the final else.
create_agent(config, api_keys) ==
    IF config.provider = Str("vapi")
    THEN [await |-> "create_vapi_agent",
          call |-> <<create_vapi_agent_request(config, api_keys["vapi_key"])>>,
          result |-> Return(None)]
    ELSE IF config.provider = Str("retell")
    THEN [await |-> "create_retell_agent",
          call |-> <<create_retell_agent_request(config, api_keys["retell_key"])>>,
          result |-> Return(None)]
    ELSE [await |-> "",
          call |-> <<>>,
          result |-> HTTPException(400, "Invalid provider specified")]

-----------------------------------------------------------------------------
(* Dispatcher: the downstream outcome *)

\* Outcomes of the outbound call: a response, or no response at all.
Response(status_code, text) ==
    [kind |-> "response", status_code |-> status_code, text |-> text]

RequestError(message) == [kind |-> "RequestError", status_code |-> 0, text |-> message]

NoOutcome == [kind |-> "none", status_code |-> 0, text |-> ""]

JSONDecodeError == <<"JSONDecodeError">>

\* response.json() on the response bodies the model draws from.
json_loads(text) ==
    CASE text = "{\"id\": \"abc\"}" -> Obj([id |-> Str("abc")])
      [] text = "{\"id\": \"abc\", \"provider\": \"11labs\"}" ->
            Obj([id |-> Str("abc"), provider |-> Str("11labs")])
      [] text = "{\"message\": \"bad voice id\"}" ->
            Obj([message |-> Str("bad voice id")])
      [] text = "{\"message\": [\"name must be a string\"], \"statusCode\": 400}" ->
            Obj([message |-> Arr(<<Str("name must be a string")>>),
                 statusCode |-> Num(400)])
      [] text = "{\"error\": \"Unauthorized\"}" -> Obj([error |-> Str("Unauthorized")])
      [] text = "[\"bad voice id\"]" -> Arr(<<Str("bad voice id")>>)
      [] text = "\"created\"" -> Str("created")
      [] OTHER -> JSONDecodeError

\* response.raise_for_status() raises unless the status is 2xx.
is_success(status_code) == 200 <= status_code /\ status_code <= 299

\* Variant of TaggedResult: the parsed body replaced by the tag alone.
TaggedResultTagOnly(text, tag) ==
    LET result == json_loads(text)
    IN  IF result = JSONDecodeError THEN Unhandled("JSONDecodeError")
        ELSE IF result[1] # "obj" THEN Unhandled("TypeError")
        ELSE Return(Obj([provider |-> Str(tag)]))

\* result = response.json(); result["provider"] = tag; return result
TaggedResult(text, tag) ==
    LET result == json_loads(text)
    IN  IF result = JSONDecodeError THEN Unhandled("JSONDecodeError")
        ELSE IF result[1] # "obj" THEN Unhandled("TypeError")
        ELSE Return(Obj(SetItem(result[2], "provider", Str(tag))))

\* Variant of ErrorDetail: always the raw response text.
ErrorDetailRawText(text) == Str(text)

\* error_detail = e.response.text, replaced by error_json.get("message",
\* error_detail) unless parsing or .get raises (bare except: pass).
ErrorDetail(text) ==
    LET error_json == json_loads(text)
    IN  IF error_json = JSONDecodeError THEN Str(text)
        ELSE IF error_json[1] # "obj" THEN Str(text)
        ELSE DictGet(error_json[2], "message", Str(text))

\* create_vapi_agent from the answer of its outbound call on.
create_vapi_agent_result(outcome) ==
    IF outcome.kind = "response"
    THEN IF is_success(outcome.status_code)
         THEN TaggedResult(outcome.text, "vapi")
         ELSE HTTPException(outcome.status_code,
                            "Vapi API error: " \o PyStr(ErrorDetail(outcome.text)))
    ELSE HTTPException(500, "Vapi API request failed: " \o outcome.text)

\* Variant of create_retell_agent_result: the transport error's text is left
\* out of the detail.
create_retell_agent_result_fixed_detail(outcome) ==
    IF outcome.kind = "response"
    THEN IF is_success(outcome.status_code)
         THEN TaggedResult(outcome.text, "retell")
         ELSE HTTPException(outcome.status_code,
                            "Retell API error: " \o PyStr(ErrorDetail(outcome.text)))
    ELSE HTTPException(500, "Retell API request failed")

\* create_retell_agent from the answer of its outbound call on.
create_retell_agent_result(outcome) ==
    IF outcome.kind = "response"
    THEN IF is_success(outcome.status_code)
         THEN TaggedResult(outcome.text, "retell")
         ELSE HTTPException(outcome.status_code,
                            "Retell API error: " \o PyStr(ErrorDetail(outcome.text)))
    ELSE HTTPException(500, "Retell API request failed: " \o outcome.text)

-----------------------------------------------------------------------------
(* The HTTP boundary *)

\* The response the framework sends for the handler's result.
Respond(result) ==
    CASE result.kind = "return" -> [status_code |-> 201, body |-> result.value]
      [] result.kind = "HTTPException" ->
            [status_code |-> result.status_code,
             body |-> Obj([detail |-> Str(result.detail)])]
      [] OTHER -> [status_code |-> 500, body |-> Str("Internal Server Error")]

\* The response for a body that fails validation.
ValidationError(errors) == [status_code |-> 422, body |-> Obj([detail |-> Arr(errors)])]

-----------------------------------------------------------------------------
(* Inputs *)

Absent == <<"absent">>

\* The JSON body with the fields that are present.
Body(fields) == [k \in {x \in DOMAIN fields : fields[x] # Absent} |-> fields[k]]

Without(body, k) == [x \in (DOMAIN body) \ {k} |-> body[x]]

\* Values os.getenv may give for a credential: unset, empty, set.
KeyValues(name) == {None, Str(""), Str(name)}

Envs ==
    {[VAPI_API_KEY |-> v, RETELL_API_KEY |-> t] :
        v \in KeyValues("test_vapi_key"), t \in KeyValues("test_retell_key")}

ConfiguredEnv ==
    [VAPI_API_KEY |-> Str("test_vapi_key"), RETELL_API_KEY |-> Str("test_retell_key")]

test_agent_config ==
    [name |-> Str("Test Agent"),
     description |-> Str("A test agent"),
     llm_model |-> Str("gpt-4"),
     system_prompt |-> Str("You are a test agent."),
     voice |-> Obj([provider |-> Str("eleven_labs"),
                    voice_id |-> Str("test-voice-id"),
                    settings |-> Obj([stability |-> Num(1)])]),
     webhook_url |-> Str("https://example.com/webhook"),
     metadata |-> Obj([test |-> Str("value")])]

MinimalBody(provider) == [name |-> Str("Test Agent"), provider |-> Str(provider)]

\* Request bodies of the concurrent specification: valid and invalid ones.
RequestBodies ==
    {SetItem(test_agent_config, "provider", Str("vapi")),
     SetItem(test_agent_config, "provider", Str("retell")),
     SetItem(test_agent_config, "provider", Str("invalid")),
     test_agent_config,
     Without(SetItem(test_agent_config, "provider", Str("vapi")), "name"),
     SetItem(MinimalBody("retell"), "voice",
             Obj([provider |-> Str("azure"), voice_id |-> Str("test-voice-id")])),
     MinimalBody("vapi"),
     SetItem(MinimalBody("retell"), "provider_specific",
             Obj([end_call_after_silence |-> Num(5)]))}

SuccessTexts ==
    {"{\"id\": \"abc\"}", "{\"id\": \"abc\", \"provider\": \"11labs\"}",
     "[\"bad voice id\"]", "OK"}

ErrorTexts ==
    {"{\"message\": \"bad voice id\"}",
     "{\"message\": [\"name must be a string\"], \"statusCode\": 400}",
     "{\"error\": \"Unauthorized\"}", "[\"bad voice id\"]", "Bad Gateway"}

TransportMessages == {"All connection attempts failed", ""}

\* What the outbound call may end with (3xx is left out: whether
\* raise_for_status raises on it depends on the httpx release).
Outcomes ==
    {Response(c, t) : c \in {200, 201}, t \in SuccessTexts}
    \cup {Response(c, t) : c \in {400, 502}, t \in ErrorTexts}
    \cup {RequestError(m) : m \in TransportMessages}

\* Keys the mappers generate.
GeneratedKeys ==
    {"name", "model", "llm", "system_prompt", "metadata", "voice", "voice_id",
     "webhook_url", "description"}

SettingsOptions == {Absent, Obj(EmptyDict), Obj([stability |-> Num(1)])}

VoiceOptions ==
    {Absent} \cup
    {Obj(Body([provider |-> Str(p), voice_id |-> Str("test-voice-id"), settings |-> s])) :
        p \in VoiceProvider, s \in SettingsOptions}

ProviderSpecificOptions ==
    {Absent, Obj(EmptyDict), Obj([end_call_after_silence |-> Num(5)]),
     Obj([name |-> Str("override"), voice |-> Obj([provider |-> Str("custom")]),
          interruption_sensitivity |-> Num(1)])}
    \cup {Obj([k \in {key} |-> Str("override")]) : key \in GeneratedKeys}

\* Request bodies of the mapper specification: every combination of the
\* optional fields absent, empty and set, all that pass validation.
MapperBodies ==
    {Body([name |-> Str("Test Agent"), provider |-> Str(p), description |-> d,
           llm_model |-> m, system_prompt |-> sp, voice |-> v, webhook_url |-> w,
           metadata |-> md, provider_specific |-> ps]) :
        p \in AgentProvider,
        d \in {Absent, Str(""), Str("A test agent")},
        m \in {Absent, Str(""), Str("gpt-4")},
        sp \in {Absent, Str("You are a test agent.")},
        v \in VoiceOptions,
        w \in {Absent, Str(""), Str("https://example.com/webhook")},
        md \in {Absent, Obj(EmptyDict), Obj([test |-> Str("value")])},
        ps \in ProviderSpecificOptions}

-----------------------------------------------------------------------------
(* Request handling *)

Init ==
    /\ env \in Envs
    /\ pc = [r \in Reqs |-> "idle"]
    /\ request = [r \in Reqs |-> None]
    /\ outbound = [r \in Reqs |-> <<>>]
    /\ downstream = [r \in Reqs |-> NoOutcome]
    /\ responses = [r \in Reqs |-> <<>>]

\* The request ends with `response`.
Finish(r, response) ==
    /\ responses' = [responses EXCEPT ![r] = Append(@, response)]
    /\ pc' = [pc EXCEPT ![r] = "done"]

\* Variant of Suspend: the outbound call is kept in one module-level slot
\* that every request shares.
SuspendShared(r, at, call) ==
    /\ outbound' = [q \in Reqs |-> call]
    /\ pc' = [pc EXCEPT ![r] = at]
    /\ UNCHANGED responses

\* The handler suspends in coroutine `at` on its outbound call.
Suspend(r, at, call) ==
    /\ outbound' = [outbound EXCEPT ![r] = @ \o call]
    /\ pc' = [pc EXCEPT ![r] = at]
    /\ UNCHANGED responses

\* POST /api/agents with JSON body `body`: the dependency validate_api_keys
\* is solved first, then the body is validated, then create_agent runs up to
\* the outbound call of the provider coroutine.
PostAgents(r, body) ==
    /\ pc[r] = "idle"
    /\ request' = [request EXCEPT ![r] = Obj(body)]
    /\ LET api_keys == validate_api_keys(env)
           errors == AgentConfigErrors(body)
       IN  IF api_keys.kind # "return"
           THEN Finish(r, Respond(api_keys)) /\ UNCHANGED outbound
           ELSE IF errors # <<>>
           THEN Finish(r, ValidationError(errors)) /\ UNCHANGED outbound
           ELSE LET step == create_agent(AgentConfig(body), api_keys.value)
                IN  IF step.await = ""
                    THEN Finish(r, Respond(step.result)) /\ UNCHANGED outbound
                    ELSE Suspend(r, step.await, step.call)
    /\ UNCHANGED <<env, downstream>>

\* The outbound call of request r ends with `outcome`; the suspended
\* coroutine resumes and the request is answered.
Deliver(r, outcome) ==
    /\ pc[r] \in {"create_vapi_agent", "create_retell_agent"}
    /\ downstream' = [downstream EXCEPT ![r] = outcome]
    /\ Finish(r, Respond(IF pc[r] = "create_vapi_agent"
                         THEN create_vapi_agent_result(outcome)
                         ELSE create_retell_agent_result(outcome)))
    /\ UNCHANGED <<env, request, outbound>>

Next ==
    \E r \in Reqs :
        \/ \E body \in RequestBodies : PostAgents(r, body)
        \/ \E outcome \in Outcomes : Deliver(r, outcome)

Spec == Init /\ [][Next]_vars

\* The field mapper alone: one request, credentials configured, every
\* mapper body, up to the outbound call.
InitMap == Init /\ env = ConfiguredEnv

NextMap == pc[1] = "idle" /\ \E body \in MapperBodies : PostAgents(1, body)

SpecMap == InitMap /\ [][NextMap]_vars

-----------------------------------------------------------------------------
(* Vocabulary of the properties *)

InFlight(r) == pc[r] \in {"create_vapi_agent", "create_retell_agent"}

Done(r) == pc[r] = "done"

Received(r) == pc[r] # "idle"

ReqBody(r) == request[r][2]

IsSet(v) == v # None /\ v # Str("")

CredentialsConfigured == IsSet(env["VAPI_API_KEY"]) /\ IsSet(env["RETELL_API_KEY"])

\* The body satisfies the AgentConfig schema: name and provider given,
\* provider and voice.provider enumerated, voice.voice_id given.
ValidBody(b) ==
    /\ "name" \in DOMAIN b
    /\ "provider" \in DOMAIN b
    /\ b["provider"] \in {Str("vapi"), Str("retell")}
    /\ "voice" \in DOMAIN b =>
          /\ "provider" \in DOMAIN b["voice"][2]
          /\ b["voice"][2]["provider"] \in {Str(p) : p \in VoiceProvider}
          /\ "voice_id" \in DOMAIN b["voice"][2]

ValidRequest(r) == Received(r) /\ ValidBody(ReqBody(r))

Targets(r, provider) ==
    Received(r) /\ "provider" \in DOMAIN ReqBody(r) /\ ReqBody(r)["provider"] = Str(provider)

\* The request has been answered exactly once, by an error with a detail.
HasDetail(r) ==
    /\ Len(responses[r]) = 1
    /\ responses[r][1].body[1] = "obj"
    /\ DOMAIN responses[r][1].body[2] = {"detail"}
    /\ responses[r][1].body[2]["detail"][1] = "str"

Detail(r) == responses[r][1].body[2]["detail"][2]

Status(r) == responses[r][1].status_code

Answered(r, kind) == Done(r) /\ downstream[r].kind = kind

-----------------------------------------------------------------------------
(* C1 *)

\* C1: for a valid request handled with both credentials configured, exactly
\* one outbound POST exists from the moment the handler suspends and still
\* after any downstream outcome; it goes to the request's provider URL with
\* "Bearer " + that provider's credential, never the other's.
C1_OneOutboundCall ==
    \A r \in Reqs :
        (ValidRequest(r) /\ CredentialsConfigured) =>
            /\ Len(outbound[r]) = 1
            /\ Targets(r, "vapi") =>
                  /\ outbound[r][1].url = "https://api.vapi.ai/assistants"
                  /\ outbound[r][1].headers["Authorization"]
                        = "Bearer " \o env["VAPI_API_KEY"][2]
            /\ Targets(r, "retell") =>
                  /\ outbound[r][1].url = "https://api.retellai.com/agents"
                  /\ outbound[r][1].headers["Authorization"]
                        = "Bearer " \o env["RETELL_API_KEY"][2]

\* A valid vapi request and a valid retell request, both answered, one after
\* a transport failure and one after a downstream error status.
C1_Witness ==
    \E r, q \in Reqs :
        /\ ValidRequest(r) /\ Targets(r, "vapi") /\ Answered(r, "RequestError")
        /\ ValidRequest(q) /\ Targets(q, "retell") /\ Answered(q, "response")
        /\ downstream[q].status_code = 502
        /\ Len(outbound[r]) = 1 /\ Len(outbound[q]) = 1

-----------------------------------------------------------------------------
(* C2 *)

\* The downstream call of r ended with a 2xx response.
Succeeded(r) ==
    Answered(r, "response") /\ downstream[r].status_code \in 200..299

DownstreamJson(r) == json_loads(downstream[r].text)

\* The answer to r is 201 with a JSON object carrying the request's provider.
TaggedAnswer(r) ==
    /\ Len(responses[r]) = 1
    /\ Status(r) = 201
    /\ responses[r][1].body[1] = "obj"
    /\ "provider" \in DOMAIN responses[r][1].body[2]
    /\ responses[r][1].body[2]["provider"] = ReqBody(r)["provider"]

\* C2 as stated: after a 2xx downstream answer with a JSON body the response
\* is 201, carries provider = the request's provider, and every downstream
\* field keeps its value.
C2_AsStated ==
    \A r \in Reqs :
        (Succeeded(r) /\ DownstreamJson(r) # JSONDecodeError) =>
            /\ TaggedAnswer(r)
            /\ DownstreamJson(r)[1] = "obj"
            /\ \A k \in DOMAIN DownstreamJson(r)[2] :
                  /\ k \in DOMAIN responses[r][1].body[2]
                  /\ responses[r][1].body[2][k] = DownstreamJson(r)[2][k]

\* C2 (amended): after a 2xx downstream answer whose body is a JSON object
\* the response is 201 and its body has exactly the downstream fields plus
\* `provider`; `provider` is the request's provider (replacing a downstream
\* `provider` field) and every other downstream field keeps its value.
C2_TaggedRoundTrip ==
    \A r \in Reqs :
        (Succeeded(r) /\ DownstreamJson(r)[1] = "obj") =>
            /\ TaggedAnswer(r)
            /\ DOMAIN responses[r][1].body[2]
                  = DOMAIN DownstreamJson(r)[2] \cup {"provider"}
            /\ \A k \in DOMAIN DownstreamJson(r)[2] \ {"provider"} :
                  responses[r][1].body[2][k] = DownstreamJson(r)[2][k]

\* A retell request answered 200 with an object that has its own `provider`.
C2_Witness ==
    \E r \in Reqs :
        /\ Succeeded(r) /\ Targets(r, "retell")
        /\ downstream[r].status_code = 200
        /\ DownstreamJson(r)[1] = "obj"
        /\ "provider" \in DOMAIN DownstreamJson(r)[2]
        /\ responses[r][1].body[2]["id"] = Str("abc")

-----------------------------------------------------------------------------
(* C3 *)

\* The downstream call of r ended with a response that is not 2xx.
Failed(r) ==
    Answered(r, "response") /\ downstream[r].status_code \notin 200..299

\* C3: after a non-2xx downstream answer to a valid request the response has
\* status 500, not the downstream status, and its detail contains the
\* downstream message.
C3_CollapsedTo500 ==
    \A r \in Reqs :
        (ValidRequest(r) /\ Failed(r)) =>
            /\ HasDetail(r)
            /\ Status(r) = 500
            /\ Status(r) # downstream[r].status_code
            /\ (DownstreamJson(r)[1] = "obj" /\ "message" \in DOMAIN DownstreamJson(r)[2]
                /\ DownstreamJson(r)[2]["message"][1] = "str")
                  => Contains(Detail(r), DownstreamJson(r)[2]["message"][2])

-----------------------------------------------------------------------------
(* C4 *)

\* C4 as stated: a request whose body omits name or provider, or has a
\* provider or voice.provider outside the enumerations, is answered 422 and
\* makes no outbound call.
C4_AsStated ==
    \A r \in Reqs :
        (Received(r) /\ ~ValidBody(ReqBody(r))) =>
            /\ Done(r)
            /\ Len(responses[r]) = 1
            /\ Status(r) = 422
            /\ outbound[r] = <<>>

\* C4 (amended): such a request never makes an outbound call, and is
\* answered 422 when both credentials are configured.
C4_Rejected ==
    \A r \in Reqs :
        (Received(r) /\ ~ValidBody(ReqBody(r))) =>
            /\ Done(r)
            /\ Len(responses[r]) = 1
            /\ outbound[r] = <<>>
            /\ downstream[r] = NoOutcome
            /\ CredentialsConfigured => Status(r) = 422

\* With the credentials configured, a body without name and a body whose
\* provider is not enumerated have each been answered 422.
C4_Witness ==
    /\ CredentialsConfigured
    /\ \E r, q \in Reqs :
          /\ Done(r) /\ "name" \notin DOMAIN ReqBody(r) /\ Status(r) = 422
          /\ Done(q) /\ "provider" \in DOMAIN ReqBody(q)
          /\ ReqBody(q)["provider"] = Str("invalid") /\ Status(q) = 422
          /\ outbound[r] = <<>> /\ outbound[q] = <<>>

-----------------------------------------------------------------------------
(* C5 *)

\* C5: with either credential unset or empty every request, valid or not and
\* whichever provider it targets, is answered at once with status 500 and a
\* detail containing "not configured", and makes no outbound call.
C5_ConfigurationError ==
    ~CredentialsConfigured =>
        \A r \in Reqs :
            Received(r) =>
                /\ Done(r)
                /\ HasDetail(r)
                /\ Status(r) = 500
                /\ Contains(Detail(r), "not configured")
                /\ outbound[r] = <<>>
                /\ downstream[r] = NoOutcome

\* Only the retell credential is missing and a valid vapi request, which
\* needs only the credential that is present, is answered 500.
C5_Witness ==
    /\ IsSet(env["VAPI_API_KEY"])
    /\ ~IsSet(env["RETELL_API_KEY"])
    /\ \E r \in Reqs :
          /\ ValidRequest(r) /\ Targets(r, "vapi") /\ Done(r)
          /\ Status(r) = 500
          /\ Detail(r) = "RETELL_API_KEY not configured in environment"

-----------------------------------------------------------------------------
(* C8 *)

ErrorPrefix(r) == IF Targets(r, "vapi") THEN "Vapi API error: " ELSE "Retell API error: "

HasMessage(json) == json[1] = "obj" /\ "message" \in DOMAIN json[2]

\* C8: after a non-2xx downstream answer the request ends with the
\* dispatcher's upstream error: it carries the downstream status code, and
\* its message is the body's `message` field when the body is a JSON object
\* with that field and the raw response text otherwise; no other error
\* results from extracting the message.
C8_UpstreamError ==
    \A r \in Reqs :
        Failed(r) =>
            /\ HasDetail(r)
            /\ Status(r) = downstream[r].status_code
            /\ Detail(r) = ErrorPrefix(r) \o
                  (IF HasMessage(DownstreamJson(r))
                   THEN PyStr(DownstreamJson(r)[2]["message"])
                   ELSE downstream[r].text)

\* Two failed requests: one whose body is an object with `message`, one
\* whose body is JSON but not an object.
C8_Witness ==
    \E r, q \in Reqs :
        /\ Failed(r) /\ HasMessage(DownstreamJson(r))
        /\ Detail(r) = "Vapi API error: bad voice id"
        /\ Failed(q) /\ DownstreamJson(q)[1] = "arr"
        /\ Detail(q) = "Retell API error: [\"bad voice id\"]"

-----------------------------------------------------------------------------
(* C9 *)

\* C9 as stated: after a transport failure the request is answered 500, with
\* a result that is the same for every transport failure of that provider,
\* and no second outbound call is made.
C9_AsStated ==
    \A r \in Reqs :
        Answered(r, "RequestError") =>
            /\ Len(responses[r]) = 1
            /\ Status(r) = 500
            /\ Len(outbound[r]) = 1
            /\ \A q \in Reqs :
                  (Answered(q, "RequestError")
                   /\ ReqBody(q)["provider"] = ReqBody(r)["provider"])
                      => responses[q] = responses[r]

FailedPrefix(r) ==
    IF Targets(r, "vapi") THEN "Vapi API request failed: " ELSE "Retell API request failed: "

\* C9 (amended): after a transport failure the request is answered 500 with
\* the detail "<Provider> API request failed: " followed by the text of the
\* transport error; the result depends on the provider and on that text
\* only, not on the rest of the request, and no second outbound call is made.
C9_TransportFailure ==
    \A r \in Reqs :
        Answered(r, "RequestError") =>
            /\ HasDetail(r)
            /\ Status(r) = 500
            /\ Detail(r) = FailedPrefix(r) \o downstream[r].text
            /\ Len(outbound[r]) = 1
            /\ \A q \in Reqs :
                  (Answered(q, "RequestError")
                   /\ ReqBody(q)["provider"] = ReqBody(r)["provider"]
                   /\ downstream[q].text = downstream[r].text)
                      => responses[q] = responses[r]

\* Two retell requests with different bodies, both failed with the same
\* transport error and answered alike.
C9_Witness ==
    \E r, q \in Reqs :
        /\ Answered(r, "RequestError") /\ Answered(q, "RequestError")
        /\ Targets(r, "retell") /\ Targets(q, "retell")
        /\ ReqBody(r) # ReqBody(q)
        /\ downstream[r].text = "All connection attempts failed"
        /\ downstream[q].text = downstream[r].text
        /\ responses[q] = responses[r]
        /\ Detail(r) = "Retell API request failed: All connection attempts failed"

-----------------------------------------------------------------------------
(* C10 *)

\* The outbound calls a request with this body makes under credentials e.
OwnCalls(body, e) ==
    IF validate_api_keys(e).kind = "return" /\ AgentConfigErrors(body) = <<>>
    THEN create_agent(AgentConfig(body), validate_api_keys(e).value).call
    ELSE <<>>

\* The response to a request with this body under credentials e whose own
\* outbound call, if it makes one, ends with `outcome`.
OwnResponse(body, e, outcome) ==
    IF validate_api_keys(e).kind # "return" THEN Respond(validate_api_keys(e))
    ELSE IF AgentConfigErrors(body) # <<>> THEN ValidationError(AgentConfigErrors(body))
    ELSE IF body["provider"] = Str("vapi") THEN Respond(create_vapi_agent_result(outcome))
    ELSE Respond(create_retell_agent_result(outcome))

\* The state of request r.
Own(r) == <<pc[r], request[r], outbound[r], downstream[r], responses[r]>>

OwnNext(r) == <<pc'[r], request'[r], outbound'[r], downstream'[r], responses'[r]>>

\* Whatever the other requests are doing, r's outbound call and response are
\* those of its own body, the credentials and its own downstream outcome.
C10_OwnInputsOnly ==
    \A r \in Reqs :
        /\ ~Received(r) => Own(r) = <<"idle", None, <<>>, NoOutcome, <<>>>>
        /\ Received(r) => outbound[r] = OwnCalls(ReqBody(r), env)
        /\ (Received(r) /\ ~Done(r)) =>
              /\ InFlight(r)
              /\ Len(outbound[r]) = 1
              /\ responses[r] = <<>>
              /\ downstream[r] = NoOutcome
        /\ Done(r) => responses[r] = <<OwnResponse(ReqBody(r), env, downstream[r])>>

\* A step of one request leaves the credentials and every other request's
\* state as they were, and a request once answered stays as it is.
C10_OwnStateOnly ==
    /\ env' = env
    /\ \A r, q \in Reqs : (OwnNext(r) # Own(r) /\ q # r) => OwnNext(q) = Own(q)
    /\ \A r \in Reqs : Done(r) => OwnNext(r) = Own(r)

\* C10: with several requests in flight in any interleaving, each request's
\* outbound URL, Authorization header, payload and response are determined
\* by its own body, the process-wide credentials and its own downstream
\* outcome; no step of a request changes another request's state or the
\* credentials, and each request is answered exactly once.
C10_Isolation == [](C10_OwnInputsOnly) /\ [][C10_OwnStateOnly]_vars

\* Two requests for different providers are suspended on their outbound
\* calls at the same time.
C10_Witness ==
    \E r, q \in Reqs :
        /\ pc[r] = "create_vapi_agent" /\ pc[q] = "create_retell_agent"
        /\ outbound[r][1].url = "https://api.vapi.ai/assistants"
        /\ outbound[q][1].url = "https://api.retellai.com/agents"
        /\ outbound[r][1].json # outbound[q][1].json

-----------------------------------------------------------------------------
(* C7 *)

\* The field is in the body and not null.
Given(b, k) == k \in DOMAIN b /\ b[k] # None

\* The field is given and neither "" nor {}.
NonEmpty(b, k) == Given(b, k) /\ b[k] # Str("") /\ b[k] # Obj(EmptyDict)

OrDefault(b, k, default) == IF NonEmpty(b, k) THEN b[k] ELSE default

\* The payload of the one outbound call of request r.
Payload(r) == outbound[r][1].json

\* Reference voice block for raw voice v: provider `name`, voice_id inside
\* when nested, settings when `settings` says so.
RefVoice(v, name, nested, settings) ==
    Obj([k \in {"provider"} \cup (IF nested THEN {"voice_id"} ELSE {})
                \cup (IF settings THEN {"settings"} ELSE {}) |->
            CASE k = "provider" -> Str(name)
              [] k = "voice_id" -> v["voice_id"]
              [] OTHER -> v["settings"]])

\* Reference mapping of body b, with the optional keys `optional` (among
\* description, webhook_url, settings) included.
RefPayload(b, optional) ==
    LET vapi == b["provider"] = Str("vapi")
        voice == Given(b, "voice")
        keys == {"name", "system_prompt", "metadata"}
                \cup (IF vapi THEN {"model"} ELSE {"llm"})
                \cup (IF voice THEN {"voice"} ELSE {})
                \cup (IF voice /\ vapi THEN {"voice_id"} ELSE {})
                \cup (optional \cap {"description", "webhook_url"})
    IN  [k \in keys |->
            CASE k = "name" -> b["name"]
              [] k = "model" -> OrDefault(b, "llm_model", Str("gpt-3.5-turbo-0125"))
              [] k = "llm" ->
                    Obj([provider |-> Str("openai"),
                         model |-> OrDefault(b, "llm_model", Str("gpt-3.5-turbo"))])
              [] k = "system_prompt" -> OrDefault(b, "system_prompt", Str(""))
              [] k = "metadata" -> OrDefault(b, "metadata", Obj(EmptyDict))
              [] k = "voice_id" -> b["voice"][2]["voice_id"]
              [] k = "voice" ->
                    RefVoice(b["voice"][2],
                             IF vapi THEN VapiVoiceMapping[b["voice"][2]["provider"][2]]
                             ELSE RetellVoiceMapping[b["voice"][2]["provider"][2]],
                             ~vapi, "settings" \in optional)
              [] OTHER -> b[k]]

\* Every enumerated voice provider has its own entry in both tables, and
\* none but eleven_labs is mapped to a table's default.
TablesTotal ==
    \A p \in VoiceProvider :
        /\ p \in DOMAIN VapiVoiceMapping
        /\ p \in DOMAIN RetellVoiceMapping
        /\ map_voice_provider_to_vapi(Str(p)) = Str(VapiVoiceMapping[p])
        /\ map_voice_provider_to_retell(Str(p)) = Str(RetellVoiceMapping[p])
        /\ p # "eleven_labs" =>
              /\ map_voice_provider_to_vapi(Str(p)) # Str("eleven_labs")
              /\ map_voice_provider_to_retell(Str(p)) # Str("elevenlabs")

GivenOptions(b) ==
    {k \in {"description", "webhook_url"} : Given(b, k)}

NonEmptyOptions(b) ==
    {k \in {"description", "webhook_url"} : NonEmpty(b, k)}
    \cup (IF Given(b, "voice") /\ NonEmpty(b["voice"][2], "settings")
          THEN {"settings"} ELSE {})

\* A valid request without provider_specific that has made its call.
Mapped(r) ==
    ValidRequest(r) /\ outbound[r] # <<>> /\ "provider_specific" \notin DOMAIN ReqBody(r)

\* C7 as stated: without provider_specific the payload is the reference
\* mapping with description and webhook_url present exactly when given and
\* voice.settings present only if given; both tables are total.
C7_AsStated ==
    /\ TablesTotal
    /\ \A r \in Reqs :
          Mapped(r) =>
              \/ Payload(r) = RefPayload(ReqBody(r), GivenOptions(ReqBody(r)))
              \/ /\ Given(ReqBody(r), "voice")
                 /\ Given(ReqBody(r)["voice"][2], "settings")
                 /\ Payload(r)
                       = RefPayload(ReqBody(r), GivenOptions(ReqBody(r)) \cup {"settings"})

\* C7 (amended): without provider_specific the payload is the reference
\* mapping with description, webhook_url and voice.settings present exactly
\* when given and non-empty ("" and {} count as not given); both tables are
\* total.
C7_ReferenceMapping ==
    /\ TablesTotal
    /\ \A r \in Reqs :
          Mapped(r) =>
              Payload(r) = RefPayload(ReqBody(r), NonEmptyOptions(ReqBody(r)))

\* A retell request with an aws_polly voice with settings, an empty
\* description and no llm_model, mapped to the nested voice block.
C7_Witness ==
    \E r \in Reqs :
        /\ Mapped(r) /\ Targets(r, "retell")
        /\ Given(ReqBody(r), "description") /\ ~NonEmpty(ReqBody(r), "description")
        /\ ~Given(ReqBody(r), "llm_model")
        /\ Given(ReqBody(r), "voice")
        /\ ReqBody(r)["voice"][2]["provider"] = Str("aws_polly")
        /\ DOMAIN Payload(r) = {"name", "llm", "system_prompt", "metadata", "voice"}
        /\ Payload(r)["voice"]
              = Obj([provider |-> Str("polly"), voice_id |-> Str("test-voice-id"),
                     settings |-> Obj([stability |-> Num(1)])])
        /\ Payload(r)["llm"][2]["model"] = Str("gpt-3.5-turbo")

-----------------------------------------------------------------------------
(* C6 *)

\* The items of provider_specific, none when it is absent.
ProviderSpecific(b) ==
    IF Given(b, "provider_specific") THEN b["provider_specific"][2] ELSE EmptyDict

\* What the mapper generates for b before provider_specific is merged.
Generated(b) ==
    create_agent(AgentConfig(Without(b, "provider_specific")),
                 validate_api_keys(ConfiguredEnv).value).call[1].json

\* C6: for both providers every provider_specific key is in the payload with
\* the provider_specific value, also when the mapper generated that key,
\* and every other payload key has the mapper's value.
C6_LastWriteWins ==
    \A r \in Reqs :
        (ValidRequest(r) /\ outbound[r] # <<>>) =>
            /\ DOMAIN Payload(r)
                  = DOMAIN Generated(ReqBody(r)) \cup DOMAIN ProviderSpecific(ReqBody(r))
            /\ \A k \in DOMAIN ProviderSpecific(ReqBody(r)) :
                  Payload(r)[k] = ProviderSpecific(ReqBody(r))[k]
            /\ \A k \in DOMAIN Generated(ReqBody(r)) \ DOMAIN ProviderSpecific(ReqBody(r)) :
                  Payload(r)[k] = Generated(ReqBody(r))[k]

\* A vapi request with a voice whose provider_specific replaces name and
\* voice and adds a key of its own.
C6_Witness ==
    \E r \in Reqs :
        /\ ValidRequest(r) /\ outbound[r] # <<>> /\ Targets(r, "vapi")
        /\ Given(ReqBody(r), "voice")
        /\ DOMAIN ProviderSpecific(ReqBody(r))
              = {"name", "voice", "interruption_sensitivity"}
        /\ Payload(r)["name"] = Str("override")
        /\ Payload(r)["voice"] = Obj([provider |-> Str("custom")])
        /\ Payload(r)["voice_id"] = Str("test-voice-id")
        /\ Payload(r)["interruption_sensitivity"] = Num(1)

====
